---- MODULE Spec2Model ----
(***************************************************************************)
(* duckypad_daemon: the profile autoswitcher.                              *)
(*                                                                         *)
(*   src/src/lib.rs   next_profile, goto_profile, switch_profile,          *)
(*                    run_callback, get_app_name, config_file, read_config *)
(*   src/src/hid.rs   init, info, read, write                              *)
(*   src/src/main.rs  the startup and the daemon loop                      *)
(*                                                                         *)
(* Specifications: Spec (the loop, without --callback), SpecCb (the loop   *)
(* with --callback), SpecStart (main from its first line), SpecReload and  *)
(* SpecReloadFair (the loop while the config file is edited), and the      *)
(* functions on their own: SpecEval, SpecGoto, SpecInfo, SpecRead.         *)
(*                                                                         *)
(* Strings are sequences of one-character strings, JSON objects are        *)
(* functions from field names to values, Option<u8> is an integer with     *)
(* None == -1.                                                             *)
(***************************************************************************)
EXTENDS Integers, Sequences, FiniteSets, TLC

VARIABLES
    pc,            \* position of the daemon: "load", "connect", "switch", "recv", "panicked"
                   \* (unit runs: "eval", "goto", "info", "read", "done")
    config,        \* main.rs `config`: the parsed JSON value
    prev_profile,  \* main.rs `prev_profile`: Option<u8>
    recv_counter,  \* main.rs `recv_counter`, in milliseconds
    events,        \* the watcher's channel `rx`: queued events, oldest first
    received,      \* what rx.try_recv() gave in the latest pass of the loop:
                   \* "none" (not called), "Empty", "Write", "Other"
    callback,      \* main.rs `callback`: TRUE iff --callback was given
    cb_args,       \* the argument list held by the callback Command
    child,         \* the latest spawned callback process: "none", "running"
    window,        \* switch_profile `window` of the latest tick
    app_name,      \* switch_profile `app_name` of the latest tick
    candidate,     \* what next_profile returned in the latest tick
    opened,        \* the latest tick (or the startup) called hid::init and got a device
    open_tried,    \* the latest tick (or the startup) called hid::init
    frame,         \* the buffer the latest tick handed to device.write, or NoFrame
    io,            \* result of the latest goto_profile: "none", "ok", "err"
    write_ok,      \* device.write returned Ok in the latest tick
    reply,         \* what hid::read produced in the latest tick: "none", "data", "timeout", "err"
    spawned,       \* the latest tick called run_callback
    ops,           \* the device calls of the latest tick (or of the startup), in order:
                   \* "open_failed", "open", "write", "read", "spawn", "close"
    handles,       \* how many HidDevice values are alive
    env_win,       \* the surroundings: the window that is active now
    env_dev,       \* the surroundings: what the device would do if asked now
    wait,          \* main.rs `args.wait`: TRUE iff --wait was given
    file,          \* what the config file holds (as far as the daemon has seen it)
    hid_dev,       \* what the device answers to hid::info: strings and reply buffer
    info,          \* the DuckyPadInfo hid::info returned, or NoInfo
    timer,         \* hid::read `timer.elapsed()` in milliseconds
    last_poll,     \* hid::read: elapsed time at the latest device.read, or NoPoll
    poll_out,      \* hid::read: the latest device.read: "none", "err", "data", "nodata"
    read_res       \* hid::read: "idle", "polling", "Some", "None", "Err"

start_vars == <<wait, file>>
info_vars == <<hid_dev, info>>
read_vars == <<timer, last_poll, poll_out, read_res>>
dev_vars == <<ops, handles>>
env_vars == <<env_win, env_dev>>

vars == <<pc, config, prev_profile, recv_counter, events, received, callback, cb_args, child,
          window, app_name, candidate, opened, open_tried, frame, io, write_ok, reply,
          spawned, ops, handles, env_win, env_dev, wait, file, hid_dev, info, timer, last_poll, poll_out,
          read_res>>

(***************************************************************************)
(* Values                                                                  *)
(***************************************************************************)
None == -1
Panic == -2

PC_TO_DUCKYPAD_HID_BUF_SIZE == 64
MIN_PROFILE == 1
MAX_PROFILE == 31
U8_MAX == 255

RECV_INTERVAL == 10000
WAIT_INTERVAL == 250
COUNTER_RESET == 0

NoFrame == <<>>
NoInfo == <<>>
NoDevice == <<>>
NoPoll == -1
Unknown == <<"u", "n", "k", "n", "o", "w", "n">>

\* str::contains: the pattern occurs in s as a contiguous run
Contains(s, p) ==
    \E i \in 0..(Len(s) - Len(p)) : SubSeq(s, i + 1, i + Len(p)) = p

Has(obj, k) == k \in DOMAIN obj

(***************************************************************************)
(* Rule engine: next_profile (lib.rs)                                      *)
(***************************************************************************)
\* item.get("process_name"): the pattern, "" when the field is absent
conf_process_name(item) ==
    IF Has(item, "process_name") THEN item["process_name"] ELSE <<>>

\* item.get("title"), else the python autoswitcher's "window_title"
conf_title(item) ==
    IF Has(item, "title") THEN item["title"] ELSE item["window_title"]

conf_app_name(item) == item["app_name"]

\* one pattern against one field of the window: empty matches everything
FieldMatchesNoWildcard(pattern, field) == Contains(field, pattern) /\ Len(pattern) > 0
FieldMatches(pattern, field) == Len(pattern) = 0 \/ Contains(field, pattern)

\* the condition of lib.rs:374-376
Matches(item, win, app) ==
    /\ FieldMatches(conf_process_name(item), win.process_name)
    /\ FieldMatches(conf_title(item), win.title)
    /\ FieldMatches(conf_app_name(item), app)

\* the value returned for a matching rule: as_u64, then u8::try_from
SwitchTo(item) ==
    IF ~Has(item, "switch_to") THEN Panic
    ELSE IF item["switch_to"] < 0 \/ item["switch_to"] > U8_MAX THEN Panic
    ELSE item["switch_to"]

\* one iteration of the loop over rules: "skip" (continue), "panic", "return"
RuleStep(item, win, app) ==
    IF ~Has(item, "enabled") THEN "panic"
    ELSE IF ~item["enabled"] THEN "skip"
    ELSE IF ~Has(item, "title") /\ ~Has(item, "window_title") THEN "panic"
    ELSE IF ~Has(item, "app_name") THEN "panic"
    ELSE IF Matches(item, win, app)
         THEN (IF SwitchTo(item) = Panic THEN "panic" ELSE "return")
         ELSE "skip"

RECURSIVE ScanRules(_, _, _, _)
ScanRules(rules, i, win, app) ==
    IF i > Len(rules) THEN None
    ELSE LET step == RuleStep(rules[i], win, app) IN
         IF step = "panic" THEN Panic
         ELSE IF step = "return" THEN SwitchTo(rules[i])
         ELSE ScanRules(rules, i + 1, win, app)

\* a mutant: the last matching rule wins
RECURSIVE ScanRulesLast(_, _, _, _)
ScanRulesLast(rules, i, win, app) ==
    IF i < 1 THEN None
    ELSE LET step == RuleStep(rules[i], win, app) IN
         IF step = "panic" THEN Panic
         ELSE IF step = "return" THEN SwitchTo(rules[i])
         ELSE ScanRulesLast(rules, i - 1, win, app)

next_profile_last(cfg, win, app) ==
    IF cfg["kind"] # "object" THEN Panic
    ELSE IF ~Has(cfg, "rules_list") THEN Panic
    ELSE ScanRulesLast(cfg["rules_list"], Len(cfg["rules_list"]), win, app)
next_profile(cfg, win, app) ==
    IF cfg["kind"] # "object" THEN Panic
    ELSE IF ~Has(cfg, "rules_list") THEN Panic
    ELSE ScanRules(cfg["rules_list"], 1, win, app)

(***************************************************************************)
(* Device transport and protocol: hid::write, hid::read, goto_profile      *)
(***************************************************************************)
\* what the device does in one switch attempt; chosen by the environment:
\* hid::init finds no device or fails to open it, device.write fails,
\* device.read fails, delivers a report, or stays silent up to the ceiling
DeviceOutcomes == {"notfound", "open_err", "write_err", "read_err", "data", "timeout"}
OpenOf(dev) == IF dev \in {"notfound", "open_err"} THEN dev ELSE "ok"
WriteOf(dev) == IF dev = "write_err" THEN "err" ELSE "ok"
ReadOf(dev) == IF dev = "read_err" THEN "err" ELSE IF dev = "data" THEN "data" ELSE "timeout"

\* hid::read: Ok(Some(buf)), Ok(None) at the ceiling, or the HidError
hid_read(rd) ==
    IF rd = "err" THEN [res |-> "Err", reply |-> "err"]
    ELSE IF rd = "data" THEN [res |-> "Some", reply |-> "data"]
    ELSE [res |-> "None", reply |-> "timeout"]

\* the two device calls of hid::write, in the order it makes them
ReadThenWrite == <<"read", "write">>
WriteThenRead == <<"write", "read">>

\* hid::write: device.write(&buf)?; read(device)
\* ops: the device calls made; the `?` returns after the first one
hid_write_unchecked(buf, wr, rd) == hid_read(rd) @@ ("ops" :> WriteThenRead)
hid_write(buf, wr, rd) ==
    IF wr = "err"
    THEN [res |-> "Err", reply |-> "none", ops |-> SubSeq(WriteThenRead, 1, 1)]
    ELSE hid_read(rd) @@ ("ops" :> WriteThenRead)

\* assert!(profile >= 1 && profile <= 31)
InRangeOffByOne(profile) == profile >= MIN_PROFILE - 1 /\ profile <= MAX_PROFILE + 1
InRange(profile) == profile >= MIN_PROFILE /\ profile <= MAX_PROFILE

\* buf = [0x00; 64]; buf[0] = 0x05; buf[2] = 0x01; buf[3] = profile
SwitchFrameShifted(profile) ==
    [i \in 1..PC_TO_DUCKYPAD_HID_BUF_SIZE |->
        IF i = 1 THEN 5 ELSE IF i = 2 THEN 1 ELSE IF i = 3 THEN profile ELSE 0]
SwitchFrame(profile) ==
    [i \in 1..PC_TO_DUCKYPAD_HID_BUF_SIZE |->
        IF i = 1 THEN 5 ELSE IF i = 3 THEN 1 ELSE IF i = 4 THEN profile ELSE 0]

\* `let _ = hid::write(device, buf)?; Ok(())`: only a HidError is a failure
GotoResultStrict(r) == IF r = "Some" THEN "ok" ELSE "err"
GotoResult(r) == IF r = "Err" THEN "err" ELSE "ok"

\* goto_profile: [res: "panic" | "ok" | "err", frame handed to device.write,
\* whether device.write took it, what the read produced]
goto_profile(profile, wr, rd) ==
    IF ~InRange(profile)
    THEN [res |-> "panic", frame |-> NoFrame, wrote |-> FALSE, reply |-> "none",
          ops |-> <<>>]
    ELSE LET buf == SwitchFrame(profile)
             w == hid_write(buf, wr, rd)
         IN  [res |-> GotoResult(w.res), frame |-> buf, wrote |-> (wr = "ok"),
              reply |-> w.reply, ops |-> w.ops]

(***************************************************************************)
(* Switch controller: switch_profile (lib.rs)                              *)
(***************************************************************************)
\* get_app_name(..).unwrap_or("unknown")
get_app_name(lookup) == IF lookup.found THEN lookup.name ELSE Unknown

\* `if let Some(profile) = next_profile(..)`
IsSomeAlways(profile) == TRUE
IsSome(profile) == profile # None

\* `prev_profile.is_none() || profile != prev_profile.unwrap()`
ShouldSwitchAlways(prev, profile) == TRUE
ShouldSwitch(prev, profile) == prev = None \/ profile # prev

\* u8::to_string: the decimal digits, most significant first
DigitChar(d) == <<"0", "1", "2", "3", "4", "5", "6", "7", "8", "9">>[d + 1]
RECURSIVE to_string(_)
to_string(n) ==
    IF n < 10 THEN <<DigitChar(n)>>
    ELSE Append(to_string(n \div 10), DigitChar(n % 10))

FlagP == <<"-", "p">>
FlagA == <<"-", "a">>
FlagT == <<"-", "t">>
FlagN == <<"-", "n">>

\* the arguments one call of run_callback adds with Command::arg
CallbackArgs(profile, win, app) ==
    <<FlagP, to_string(profile)>>
    \o (IF app # <<>> THEN <<FlagA, app>> ELSE <<>>)
    \o (IF win.title # <<>> THEN <<FlagT, win.title>> ELSE <<>>)
    \o (IF win.process_name # <<>> THEN <<FlagN, win.process_name>> ELSE <<>>)

\* run_callback on the Command main.rs created once: Command::arg appends to the
\* Command's list, spawn() starts a child with the whole list and does not wait.
\* [args: the Command's list afterwards, child, blocked: the call does not return]
run_callback_waiting(args, profile, win, app, sp) ==
    [args |-> args \o CallbackArgs(profile, win, app),
     child |-> IF sp = "ok" THEN "running" ELSE "none",
     blocked |-> sp = "ok"]
run_callback(args, profile, win, app, sp) ==
    [args |-> args \o CallbackArgs(profile, win, app),
     child |-> IF sp = "ok" THEN "running" ELSE "none",
     blocked |-> FALSE]

\* `if let Some(callback) = callback` after goto_profile returned Ok
CallsCallbackAlways(cb, res) == cb
CallsCallback(cb, res) == cb /\ res = "ok"

\* the value switch_profile returns once goto_profile has returned
ReturnedAlwaysNew(prev, profile, res) == profile
Returned(prev, profile, res) == IF res = "ok" THEN profile ELSE prev

\* the HidDevice goes out of scope (lib.rs:148, main.rs:87) and is dropped,
\* which closes the handle
DropDeviceLeak(n) == n
DropDevice(n) == n - 1

\* if let Ok(window) = window
HasWindowAlways(win) == TRUE
HasWindow(win) == win.ok

\* One call of switch_profile: everything it does, as a record.
\* held: the HidDevice values alive when it is called
switch_profile(cfg, prev, cb, args, kid, held, win, lookup, dev, sp) ==
    LET quiet == [pc |-> "recv", ret |-> prev, app |-> <<>>, cand |-> None,
                  tried |-> FALSE, opened |-> FALSE, frame |-> NoFrame,
                  io |-> "none", wrote |-> FALSE, reply |-> "none", spawned |-> FALSE,
                  args |-> args, child |-> kid, ops |-> <<>>, handles |-> held]
    IN
    IF ~HasWindow(win) THEN quiet
    ELSE
    LET app == get_app_name(lookup)
        profile == next_profile(cfg, win, app)
        seen == [quiet EXCEPT !.app = app, !.cand = profile]
    IN
    IF profile = Panic THEN [seen EXCEPT !.pc = "panicked"]
    ELSE IF ~IsSome(profile) THEN seen
    ELSE IF ~ShouldSwitch(prev, profile) THEN seen
    ELSE IF OpenOf(dev) # "ok"
         THEN [seen EXCEPT !.tried = TRUE, !.ops = <<"open_failed">>]
    ELSE
    LET g == goto_profile(profile, WriteOf(dev), ReadOf(dev))
        went == [seen EXCEPT !.tried = TRUE, !.opened = TRUE, !.frame = g.frame,
                             !.io = g.res, !.wrote = g.wrote, !.reply = g.reply,
                             !.ops = <<"open">> \o g.ops \o <<"close">>,
                             !.handles = DropDevice(held + 1)]
    IN
    IF g.res = "panic" THEN [went EXCEPT !.pc = "panicked"]
    ELSE IF ~CallsCallback(cb, g.res)
         THEN [went EXCEPT !.ret = Returned(prev, profile, g.res)]
    ELSE
    LET c == run_callback(args, profile, win, app, sp)
        called == [went EXCEPT !.spawned = TRUE, !.args = c.args, !.child = c.child,
                               !.ops = <<"open">> \o g.ops \o <<"spawn", "close">>]
    IN
    IF c.blocked
    THEN [called EXCEPT !.pc = "blocked"]
    ELSE [called EXCEPT !.ret = Returned(prev, profile, g.res)]

\* switch_profile reaches hid::init with this result of next_profile: only then
\* does the device have a say
ReachesDevice(prev, win, profile) ==
    win.ok /\ profile # Panic /\ IsSome(profile) /\ ShouldSwitch(prev, profile)

\* switch_profile reaches callback.spawn(): only then does its result matter
ReachesSpawn(prev, cb, win, profile, dev) ==
    /\ ReachesDevice(prev, win, profile)
    /\ OpenOf(dev) = "ok"
    /\ InRange(profile)
    /\ CallsCallback(cb, goto_profile(profile, WriteOf(dev), ReadOf(dev)).res)

\* how many times run_callback has added to the Command
Spawns(args) == Cardinality({i \in 1..Len(args) : args[i] = FlagP})

(***************************************************************************)
(* Device information: hid::info (hid.rs)                                  *)
(***************************************************************************)
DUCKYPAD_TO_PC_HID_BUF_SIZE == 32

\* results of get_product_string / get_serial_number_string
StrErr == [kind |-> "Err"]
StrNone == [kind |-> "None"]
StrSome(str) == [kind |-> "Some", s |-> str]

\* .unwrap_or_else(|_| Some("unknown")).unwrap_or_else(|| "unknown")
InfoString(r) == IF r.kind = "Some" THEN r.s ELSE Unknown

\* buf = [0x00; 64]; buf[0] = 0x05
InfoFrame == [i \in 1..PC_TO_DUCKYPAD_HID_BUF_SIZE |-> IF i = 1 THEN 5 ELSE 0]

\* format!("{}.{}.{}", buffer[3], buffer[4], buffer[5]); sequences count from 1
FirmwareShifted(buffer) ==
    to_string(buffer[3]) \o <<".">> \o to_string(buffer[4]) \o <<".">> \o to_string(buffer[5])
Firmware(buffer) ==
    to_string(buffer[4]) \o <<".">> \o to_string(buffer[5]) \o <<".">> \o to_string(buffer[6])

\* a reply buffer whose bytes 3, 4, 5 are a, b, c; the bytes around them differ
InfoBuffer(a, b, c) ==
    [i \in 1..DUCKYPAD_TO_PC_HID_BUF_SIZE |->
        IF i = 4 THEN a ELSE IF i = 5 THEN b ELSE IF i = 6 THEN c
        ELSE IF i = 3 THEN 1 ELSE IF i = 7 THEN 2 ELSE 0]

\* hid::info: the DuckyPadInfo, and what went over the wire for it
hid_info(dev, wr, rd) ==
    LET w == hid_write(InfoFrame, wr, rd) IN
    [info |-> [model |-> InfoString(dev.product),
               serial |-> InfoString(dev.serial),
               firmware |-> IF w.res = "Some" THEN Firmware(dev.buffer) ELSE Unknown],
     frame |-> InfoFrame, wrote |-> (wr = "ok"), reply |-> w.reply, ops |-> w.ops]

(***************************************************************************)
(* Inputs of the daemon run                                                *)
(***************************************************************************)
MaxEvents == 1
MaxSpawns == 2

sA == <<"a">>
sB == <<"b">>
sAB == <<"a", "b">>
sBA == <<"b", "a">>

\* a rule of rules_list; process_name is optional
Rule(en, title, app, to) ==
    [enabled |-> en, title |-> title, app_name |-> app, switch_to |-> to]
RuleP(en, pn, title, app, to) ==
    Rule(en, title, app, to) @@ ("process_name" :> pn)

CfgGood ==
    [kind |-> "object",
     rules_list |-> << Rule(TRUE, sAB, <<>>, 1),
                       RuleP(TRUE, sB, sA, <<>>, 2),
                       Rule(FALSE, <<>>, <<>>, 3) >>]
CfgOutOfRange ==
    [kind |-> "object",
     rules_list |-> << Rule(TRUE, sAB, <<>>, 0),
                       Rule(TRUE, sA, <<>>, 32),
                       Rule(TRUE, <<>>, Unknown, 256) >>]
\* CfgGood with the python autoswitcher's global switch turned off
CfgDisabled ==
    [kind |-> "object",
     autoswitch_enabled |-> FALSE,
     rules_list |-> CfgGood["rules_list"]]
\* another rule list: the title CfgGood sends to profile 1 goes to profile 2
CfgAlt ==
    [kind |-> "object",
     rules_list |-> << Rule(TRUE, sAB, <<>>, 2) >>]
\* the content create_default_config writes: "[]"
CfgDefault == [kind |-> "array"]
InvalidJson == [kind |-> "invalid"]

MainConfigs == {CfgGood, CfgOutOfRange, CfgDisabled, CfgDefault}
FileContents == MainConfigs \cup {InvalidJson}

NoWindow == [ok |-> FALSE, title |-> <<>>, process_name |-> <<>>]
Window(title, pn) == [ok |-> TRUE, title |-> title, process_name |-> pn]
MainWindows == {NoWindow, Window(<<>>, sB), Window(sA, sB), Window(sAB, sB), Window(sBA, <<>>)}
NoLookup == [found |-> FALSE, name |-> <<>>]
MainLookups == {[found |-> TRUE, name |-> sA], NoLookup}

\* read_config: from_reader(..).unwrap_or_else(panic); any JSON value is accepted
read_config(content) == [panic |-> content["kind"] = "invalid", json |-> content]

\* `if let Write(_) = event`
IsWriteNever(event) == FALSE
IsWrite(event) == event = "Write"

\* `config = read_config(&config_path)`: the new value replaces the old one
ReloadedMerged(old, json) ==
    IF old["kind"] = "object" /\ json["kind"] = "object"
    THEN [json EXCEPT !["rules_list"] = old["rules_list"] \o json["rules_list"]]
    ELSE json
Reloaded(old, json) == json

\* no config file yet; `config` before read_config has run
Missing == [kind |-> "missing"]
Unread == [kind |-> "unread"]

\* config_file: `if !config.exists() { create_default_config(&config) }`
config_file(content) == IF content["kind"] = "missing" THEN CfgDefault ELSE content

\* where main goes when the hid::init of the startup fails: the retry loop
\* with --wait, the expect() without
StartupOpenFailedRetry(w) == "connect"
StartupOpenFailed(w) == IF w THEN "connect" ELSE "panicked"

\* hid::info and hid::read are not running
NoInfoRun == hid_dev = NoDevice /\ info = NoInfo
NoReadRun == timer = 0 /\ last_poll = NoPoll /\ poll_out = "none" /\ read_res = "idle"

(***************************************************************************)
(* The daemon loop (main.rs:118-143), started without --callback           *)
(***************************************************************************)
Init ==
    /\ pc = "switch"
    /\ config \in MainConfigs
    /\ prev_profile = None
    /\ recv_counter = COUNTER_RESET
    /\ events = <<>>
    /\ received = "none"
    /\ callback = FALSE
    /\ cb_args = <<>>
    /\ child = "none"
    /\ window = NoWindow
    /\ app_name = <<>>
    /\ candidate = None
    /\ opened = FALSE
    /\ open_tried = FALSE
    /\ frame = NoFrame
    /\ io = "none"
    /\ write_ok = FALSE
    /\ reply = "none"
    /\ spawned = FALSE
    /\ ops = <<>>
    /\ env_win = NoWindow
    /\ env_dev = "notfound"
    /\ handles = 0
    /\ wait = FALSE
    /\ file = config
    /\ NoInfoRun
    /\ NoReadRun

\* `prev_profile = switch_profile(..)`: the loop keeps what the call returned
LoopAssignDropped(prev, ret) == prev
LoopAssign(prev, ret) == ret

\* prev_profile = switch_profile(&api, &mut sys, &config, prev_profile, &mut callback, &os)
SwitchProfileOn(windows, lookups, devices) ==
    /\ pc = "switch"
    /\ Spawns(cb_args) < MaxSpawns
    /\ \E win \in windows :
       \E lookup \in (IF win.ok THEN lookups ELSE {NoLookup}) :
       \E p \in {IF win.ok THEN next_profile(config, win, get_app_name(lookup)) ELSE None} :
       \E dev \in (IF ReachesDevice(prev_profile, win, p)
                   THEN devices ELSE {"notfound"}) :
       \E sp \in (IF ReachesSpawn(prev_profile, callback, win, p, dev)
                  THEN {"ok", "err"} ELSE {"err"}) :
       \E r \in {switch_profile(config, prev_profile, callback, cb_args, child,
                                handles, win, lookup, dev, sp)} :
         /\ pc' = r.pc
         /\ prev_profile' = LoopAssign(prev_profile, r.ret)
         /\ window' = win
         /\ app_name' = r.app
         /\ candidate' = r.cand
         /\ open_tried' = r.tried
         /\ opened' = r.opened
         /\ frame' = r.frame
         /\ io' = r.io
         /\ write_ok' = r.wrote
         /\ reply' = r.reply
         /\ spawned' = r.spawned
         /\ cb_args' = r.args
         /\ child' = r.child
         /\ ops' = r.ops
         /\ handles' = r.handles
    /\ UNCHANGED <<config, recv_counter, events, received, callback, env_vars, start_vars,
                   info_vars, read_vars>>

SwitchProfile == SwitchProfileOn(MainWindows, MainLookups, DeviceOutcomes)

\* a spawned callback process ends on its own; nothing waits for it
ChildExit ==
    /\ child = "running"
    /\ child' = "none"
    /\ UNCHANGED <<pc, config, prev_profile, recv_counter, events, received, callback, cb_args,
                   window, app_name, candidate, opened, open_tried, frame, io, write_ok,
                   reply, spawned, env_vars, dev_vars, start_vars, info_vars, read_vars>>

\* recv_counter += WAIT_INTERVAL; sleep; if recv_counter >= RECV_INTERVAL { try_recv }
\* contents: what the config file may hold at the moment read_config opens it
RecvOn(contents) ==
    /\ pc = "recv"
    /\ LET c == recv_counter + WAIT_INTERVAL IN
       IF c < RECV_INTERVAL
       THEN /\ recv_counter' = c
            /\ received' = "none"
            /\ pc' = "switch"
            /\ UNCHANGED <<config, events, file>>
       ELSE /\ recv_counter' = COUNTER_RESET
            /\ IF events = <<>>
               THEN /\ received' = "Empty"
                    /\ pc' = "switch"
                    /\ UNCHANGED <<config, events, file>>
               ELSE /\ received' = Head(events)
                    /\ events' = Tail(events)
                    /\ IF IsWrite(Head(events))
                       THEN \E content \in contents :
                              /\ file' = content
                              /\ IF read_config(content).panic
                                 THEN pc' = "panicked" /\ UNCHANGED config
                                 ELSE /\ pc' = "switch"
                                      /\ config' = Reloaded(config, read_config(content).json)
                       ELSE pc' = "switch" /\ UNCHANGED <<config, file>>
    /\ UNCHANGED <<prev_profile, callback, cb_args, child, window, app_name, candidate,
                   opened, open_tried, frame, io, write_ok, reply, spawned, env_vars, dev_vars, wait,
                   info_vars, read_vars>>

Recv == RecvOn(FileContents)

\* the watcher thread sends an event about the config file
WatcherEvent ==
    /\ pc \in {"switch", "recv"}
    /\ Len(events) < MaxEvents
    /\ \E e \in {"Write", "Other"} : events' = Append(events, e)
    /\ UNCHANGED <<pc, config, prev_profile, recv_counter, received, callback, cb_args,
                   child, window,
                   app_name, candidate, opened, open_tried, frame, io, write_ok, reply,
                   spawned, env_vars, dev_vars, start_vars, info_vars, read_vars>>

Next == SwitchProfile \/ Recv \/ WatcherEvent

Spec == Init /\ [][Next]_vars

(***************************************************************************)
(* The daemon loop started with --callback                                 *)
(***************************************************************************)
CbWindows == {NoWindow, Window(<<>>, sB), Window(sA, sB), Window(sAB, <<>>)}
CbLookups == {[found |-> TRUE, name |-> sA]}

InitCb ==
    /\ pc = "switch"
    /\ config = CfgGood
    /\ prev_profile = None
    /\ recv_counter = COUNTER_RESET
    /\ events = <<>>
    /\ received = "none"
    /\ callback \in BOOLEAN
    /\ cb_args = <<>>
    /\ child = "none"
    /\ window = NoWindow
    /\ app_name = <<>>
    /\ candidate = None
    /\ opened = FALSE
    /\ open_tried = FALSE
    /\ frame = NoFrame
    /\ io = "none"
    /\ write_ok = FALSE
    /\ reply = "none"
    /\ spawned = FALSE
    /\ ops = <<>>
    /\ env_win = NoWindow
    /\ env_dev = "notfound"
    /\ handles = 0
    /\ wait = FALSE
    /\ file = config
    /\ NoInfoRun
    /\ NoReadRun

SwitchProfileCb == SwitchProfileOn(CbWindows, CbLookups, DeviceOutcomes)
RecvCb == RecvOn({CfgGood})

NextCb == SwitchProfileCb \/ RecvCb \/ WatcherEvent \/ ChildExit

SpecCb == InitCb /\ [][NextCb]_vars

(***************************************************************************)
(* The daemon from its start: main.rs:40-143                               *)
(***************************************************************************)
StartFiles == {Missing, CfgGood, InvalidJson}
StartWindows == {NoWindow, Window(sAB, sB)}
StartLookups == {[found |-> TRUE, name |-> sA]}
StartDevice == [product |-> StrSome(sAB), serial |-> StrNone, buffer |-> InfoBuffer(1, 0, 7)]

InitStart ==
    /\ pc = "load"
    /\ config = Unread
    /\ file \in StartFiles
    /\ wait \in BOOLEAN
    /\ hid_dev = StartDevice
    /\ info = NoInfo
    /\ prev_profile = None
    /\ recv_counter = COUNTER_RESET
    /\ events = <<>>
    /\ received = "none"
    /\ callback = FALSE
    /\ cb_args = <<>>
    /\ child = "none"
    /\ window = NoWindow
    /\ app_name = <<>>
    /\ candidate = None
    /\ opened = FALSE
    /\ open_tried = FALSE
    /\ frame = NoFrame
    /\ io = "none"
    /\ write_ok = FALSE
    /\ reply = "none"
    /\ spawned = FALSE
    /\ ops = <<>>
    /\ env_win = NoWindow
    /\ env_dev = "notfound"
    /\ handles = 0
    /\ NoReadRun

\* config_path = config_file(args.config); config = read_config(&config_path)
LoadConfig ==
    /\ pc = "load"
    /\ \E content \in {config_file(file)} :
         /\ file' = content
         /\ IF read_config(content).panic
            THEN pc' = "panicked" /\ UNCHANGED config
            ELSE pc' = "connect" /\ config' = read_config(content).json
    /\ UNCHANGED <<prev_profile, recv_counter, events, received, callback, cb_args, child, window,
                   app_name, candidate, opened, open_tried, frame, io, write_ok, reply,
                   spawned, env_vars, dev_vars, wait, info_vars, read_vars>>

\* main.rs:66-87: hid::init in the --wait loop or with expect(), then hid::info
Connect ==
    /\ pc = "connect"
    /\ open_tried' = TRUE
    /\ \E dev \in DeviceOutcomes :
         IF OpenOf(dev) # "ok"
         THEN /\ opened' = FALSE
              /\ pc' = StartupOpenFailed(wait)
              /\ ops' = <<"open_failed">>
              /\ UNCHANGED <<info, frame, write_ok, reply, handles>>
         ELSE \E r \in {hid_info(hid_dev, WriteOf(dev), ReadOf(dev))} :
              /\ opened' = TRUE
              /\ info' = r.info
              /\ frame' = r.frame
              /\ write_ok' = r.wrote
              /\ reply' = r.reply
              /\ ops' = <<"open">> \o r.ops \o <<"close">>
              /\ handles' = DropDevice(handles + 1)
              /\ pc' = "switch"
    /\ UNCHANGED <<config, prev_profile, recv_counter, events, received, callback, cb_args, child,
                   window, app_name, candidate, io, spawned, env_vars, start_vars, hid_dev,
                   read_vars>>

SwitchProfileStart == SwitchProfileOn(StartWindows, StartLookups, DeviceOutcomes)
RecvStart == RecvOn({file})

NextStart == LoadConfig \/ Connect \/ SwitchProfileStart \/ RecvStart \/ WatcherEvent

SpecStart == InitStart /\ [][NextStart]_vars

(***************************************************************************)
(* The daemon loop while the config file is being edited                   *)
(***************************************************************************)
ReloadFiles == {CfgGood, CfgAlt, InvalidJson}
ReloadWindows == {NoWindow, Window(sAB, sB)}

InitReload ==
    /\ pc = "switch"
    /\ config = CfgGood
    /\ file = CfgGood
    /\ prev_profile = None
    /\ recv_counter = COUNTER_RESET
    /\ events = <<>>
    /\ received = "none"
    /\ callback = FALSE
    /\ cb_args = <<>>
    /\ child = "none"
    /\ window = NoWindow
    /\ app_name = <<>>
    /\ candidate = None
    /\ opened = FALSE
    /\ open_tried = FALSE
    /\ frame = NoFrame
    /\ io = "none"
    /\ write_ok = FALSE
    /\ reply = "none"
    /\ spawned = FALSE
    /\ ops = <<>>
    /\ env_win = NoWindow
    /\ env_dev = "notfound"
    /\ handles = 0
    /\ wait = FALSE
    /\ NoInfoRun
    /\ NoReadRun

\* somebody saves the config file
FileWrite ==
    /\ pc \in {"switch", "recv"}
    /\ \E content \in ReloadFiles \ {file} : file' = content
    /\ UNCHANGED <<pc, config, prev_profile, recv_counter, events, received, callback, cb_args, child,
                   window, app_name, candidate, opened, open_tried, frame, io, write_ok,
                   reply, spawned, env_vars, dev_vars, wait, info_vars, read_vars>>

SwitchProfileReload == SwitchProfileOn(ReloadWindows, StartLookups, DeviceOutcomes)
RecvReload == RecvOn({file})

NextReload == SwitchProfileReload \/ RecvReload \/ WatcherEvent \/ FileWrite

SpecReload == InitReload /\ [][NextReload]_vars

\* the loop is sequential code whose steps all return (hid::read has its
\* ceiling, the callback is not waited for): a step of the loop that can run
\* does run
SpecReloadFair ==
    SpecReload /\ WF_vars(SwitchProfileReload) /\ WF_vars(RecvReload)

(***************************************************************************)
(* The daemon loop in surroundings that change between its steps           *)
(***************************************************************************)
ConvWindows == {NoWindow, Window(sAB, sB), Window(sA, sB)}
ConvDevices == {"notfound", "write_err", "timeout", "data"}

InitConv ==
    /\ pc = "switch"
    /\ config = CfgGood
    /\ file = CfgGood
    /\ env_win \in ConvWindows
    /\ env_dev \in ConvDevices
    /\ prev_profile = None
    /\ recv_counter = COUNTER_RESET
    /\ events = <<>>
    /\ received = "none"
    /\ callback = FALSE
    /\ cb_args = <<>>
    /\ child = "none"
    /\ window = NoWindow
    /\ app_name = <<>>
    /\ candidate = None
    /\ opened = FALSE
    /\ open_tried = FALSE
    /\ frame = NoFrame
    /\ io = "none"
    /\ write_ok = FALSE
    /\ reply = "none"
    /\ spawned = FALSE
    /\ ops = <<>>
    /\ handles = 0
    /\ wait = FALSE
    /\ NoInfoRun
    /\ NoReadRun

\* another window gets the focus, the device is unplugged, plugged in, stops or
\* starts answering
EnvChange ==
    /\ pc \in {"switch", "recv"}
    /\ \/ \E win \in ConvWindows \ {env_win} : env_win' = win /\ UNCHANGED env_dev
       \/ \E dev \in ConvDevices \ {env_dev} : env_dev' = dev /\ UNCHANGED env_win
    /\ UNCHANGED <<pc, config, prev_profile, recv_counter, events, received, callback,
                   cb_args, child, window, app_name, candidate, opened, open_tried, frame,
                   io, write_ok, reply, spawned, dev_vars, start_vars, info_vars,
                   read_vars>>

SwitchProfileConv == SwitchProfileOn({env_win}, StartLookups, {env_dev})
RecvConv == RecvOn({file})

NextConv == SwitchProfileConv \/ RecvConv \/ EnvChange

\* the loop is sequential code whose steps all return: a step of the loop that
\* can run does run
SpecConv == InitConv /\ [][NextConv]_vars /\ WF_vars(SwitchProfileConv) /\ WF_vars(RecvConv)

(***************************************************************************)
(* The daemon loop with a window script (--window-script)                  *)
(***************************************************************************)
\* serde_json values as far as custom_active_window looks at them
JString(str) == [kind |-> "string", s |-> str]
JU64 == [kind |-> "u64"]
JF64 == [kind |-> "f64"]
JPosition == [kind |-> "object", x |-> JF64, y |-> JF64, w |-> JU64, h |-> JF64]
JNotJson == [kind |-> "invalid"]

\* Value::get(key): Some only for an object that holds the key
HasKey(v, key) == v.kind = "object" /\ key \in DOMAIN v
\* Value::as_str, as_u64, as_f64 give Some for these values; as_u64 gives None
\* for a number made from a float
IsStr(v) == v.kind = "string"
IsU64(v) == v.kind = "u64"
IsF64(v) == v.kind \in {"u64", "f64"}

\* what Command::new(script).output() gives: an Err, or the bytes on stdout
NotStarted == [started |-> FALSE]
Output(utf8, json) == [started |-> TRUE, utf8 |-> utf8, json |-> json]

OutMinimal(title, pn) ==
    [kind |-> "object", title |-> JString(title), process_name |-> JString(pn)]
OutWithPid(title, pn) == OutMinimal(title, pn) @@ ("process_id" :> JU64)
OutFull(title, pn) ==
    OutWithPid(title, pn) @@ ("window_id" :> JString(sA)) @@ ("position" :> JPosition)

ScriptOutputs ==
    { NotStarted,
      Output(FALSE, JNotJson),
      Output(TRUE, JNotJson),
      Output(TRUE, JU64),
      Output(TRUE, [kind |-> "object", process_name |-> JString(sB), process_id |-> JU64]),
      Output(TRUE, [kind |-> "object", title |-> JU64, process_name |-> JString(sB),
                    process_id |-> JU64]),
      Output(TRUE, [kind |-> "object", title |-> JString(sA), process_id |-> JU64]),
      Output(TRUE, OutMinimal(sAB, sB)),
      Output(TRUE, OutWithPid(sAB, sB) @@ ("window_id" :> JU64)),
      Output(TRUE, OutWithPid(sAB, sB) @@ ("position" :> JString(sA))),
      Output(TRUE, OutWithPid(sAB, sB) @@ ("position" :> [kind |-> "object", x |-> JF64])),
      Output(TRUE, OutWithPid(sAB, sB)),
      Output(TRUE, OutFull(<<>>, <<>>)) }

\* the query ended the process in one of its expect calls
QueryPanic == [ok |-> FALSE, title |-> <<>>, process_name |-> <<>>, panic |-> TRUE]

\* position: as_object, then x, y, w, h each present and as_f64
PositionOk(pos) ==
    /\ pos.kind = "object"
    /\ \A key \in {"x", "y", "w", "h"} : HasKey(pos, key) /\ IsF64(pos[key])

\* custom_active_window: Err(()) when the script cannot be run, a panic for
\* every output it cannot use, else the ActiveWindow
custom_active_window(out) ==
    IF ~out.started THEN NoWindow
    ELSE IF ~out.utf8 THEN QueryPanic
    ELSE IF out.json.kind = "invalid" THEN QueryPanic
    ELSE IF ~HasKey(out.json, "title") THEN QueryPanic
    ELSE IF ~IsStr(out.json["title"]) THEN QueryPanic
    ELSE IF ~HasKey(out.json, "process_name") THEN QueryPanic
    ELSE IF ~IsStr(out.json["process_name"]) THEN QueryPanic
    ELSE IF ~IsStr(IF HasKey(out.json, "window_id") THEN out.json["window_id"]
                   ELSE JString(<<>>)) THEN QueryPanic
    ELSE IF ~IsU64(IF HasKey(out.json, "process_id") THEN out.json["process_id"]
                   ELSE JF64) THEN QueryPanic
    ELSE IF HasKey(out.json, "position") /\ ~PositionOk(out.json["position"]) THEN QueryPanic
    ELSE Window(out.json["title"].s, out.json["process_name"].s)

\* a rule list whose last rule matches every window
CfgCatchAll ==
    [kind |-> "object",
     rules_list |-> << Rule(TRUE, sAB, <<>>, 1), Rule(TRUE, <<>>, <<>>, 2) >>]

InitScript ==
    /\ pc = "switch"
    /\ config = CfgCatchAll
    /\ file = CfgCatchAll
    /\ prev_profile = None
    /\ recv_counter = COUNTER_RESET
    /\ events = <<>>
    /\ received = "none"
    /\ callback = TRUE
    /\ cb_args = <<>>
    /\ child = "none"
    /\ window = NoWindow
    /\ app_name = <<>>
    /\ candidate = None
    /\ opened = FALSE
    /\ open_tried = FALSE
    /\ frame = NoFrame
    /\ io = "none"
    /\ write_ok = FALSE
    /\ reply = "none"
    /\ spawned = FALSE
    /\ ops = <<>>
    /\ handles = 0
    /\ env_win = NoWindow
    /\ env_dev = "notfound"
    /\ wait = FALSE
    /\ NoInfoRun
    /\ NoReadRun

\* the tick's query gives Err or a window: switch_profile goes on with it
SwitchProfileScript ==
    SwitchProfileOn({custom_active_window(out) : out \in ScriptOutputs} \ {QueryPanic},
                    StartLookups, DeviceOutcomes)

\* the tick's query panics: switch_profile does not get past lib.rs:133
QueryPanics ==
    /\ pc = "switch"
    /\ \E out \in ScriptOutputs : custom_active_window(out) = QueryPanic
    /\ pc' = "panicked"
    /\ window' = QueryPanic
    /\ app_name' = <<>>
    /\ candidate' = None
    /\ open_tried' = FALSE
    /\ opened' = FALSE
    /\ frame' = NoFrame
    /\ io' = "none"
    /\ write_ok' = FALSE
    /\ reply' = "none"
    /\ spawned' = FALSE
    /\ ops' = <<>>
    /\ UNCHANGED <<config, prev_profile, recv_counter, events, received, callback, cb_args,
                   child, handles, env_vars, start_vars, info_vars, read_vars>>

RecvScript == RecvOn({file})

NextScript == SwitchProfileScript \/ QueryPanics \/ RecvScript \/ ChildExit

SpecScript == InitScript /\ [][NextScript]_vars

(***************************************************************************)
(* The rule engine on its own: next_profile applied to drawn inputs        *)
(***************************************************************************)
MaxRules == 2

EvalProcessPatterns == {<<>>, sB}
EvalTitlePatterns == {<<>>, sAB}
EvalAppPatterns == {<<>>, sA}
EvalTargets == {1, 2}

\* rules with and without the optional process_name
EvalRules ==
    {Rule(en, t, a, to) :
        en \in BOOLEAN, t \in EvalTitlePatterns, a \in EvalAppPatterns, to \in EvalTargets}
    \cup
    {RuleP(en, pn, t, a, to) :
        en \in BOOLEAN, pn \in EvalProcessPatterns, t \in EvalTitlePatterns,
        a \in EvalAppPatterns, to \in EvalTargets}

EvalRuleLists == UNION {[1..n -> EvalRules] : n \in 0..MaxRules}
EvalWindows == {Window(t, pn) : t \in {<<>>, sAB, sBA}, pn \in {<<>>, sAB}}
EvalApps == {<<>>, sBA}

InitEval ==
    /\ pc = "eval"
    /\ \E rules \in EvalRuleLists : config = [kind |-> "object", rules_list |-> rules]
    /\ window \in EvalWindows
    /\ app_name \in EvalApps
    /\ prev_profile = None
    /\ recv_counter = COUNTER_RESET
    /\ events = <<>>
    /\ received = "none"
    /\ callback = FALSE
    /\ cb_args = <<>>
    /\ child = "none"
    /\ candidate = None
    /\ opened = FALSE
    /\ open_tried = FALSE
    /\ frame = NoFrame
    /\ io = "none"
    /\ write_ok = FALSE
    /\ reply = "none"
    /\ spawned = FALSE
    /\ ops = <<>>
    /\ env_win = NoWindow
    /\ env_dev = "notfound"
    /\ handles = 0
    /\ wait = FALSE
    /\ file = config
    /\ NoInfoRun
    /\ NoReadRun

\* next_profile(&config, &window, &app_name)
Evaluate ==
    /\ pc = "eval"
    /\ candidate' = next_profile(config, window, app_name)
    /\ pc' = "done"
    /\ UNCHANGED <<config, prev_profile, recv_counter, events, received, callback, cb_args, child,
                   window, app_name, opened, open_tried, frame, io, write_ok, reply,
                   spawned, env_vars, dev_vars, start_vars, info_vars, read_vars>>

NextEval == Evaluate

SpecEval == InitEval /\ [][NextEval]_vars

(***************************************************************************)
(* The device protocol on its own: goto_profile applied to every u8        *)
(***************************************************************************)
InitGoto ==
    /\ pc = "goto"
    /\ candidate \in 0..U8_MAX
    /\ config = CfgGood
    /\ window = NoWindow
    /\ app_name = <<>>
    /\ prev_profile = None
    /\ recv_counter = COUNTER_RESET
    /\ events = <<>>
    /\ received = "none"
    /\ callback = FALSE
    /\ cb_args = <<>>
    /\ child = "none"
    /\ opened = TRUE
    /\ open_tried = TRUE
    /\ frame = NoFrame
    /\ io = "none"
    /\ write_ok = FALSE
    /\ reply = "none"
    /\ spawned = FALSE
    /\ ops = <<>>
    /\ env_win = NoWindow
    /\ env_dev = "notfound"
    /\ handles = 1
    /\ wait = FALSE
    /\ file = config
    /\ NoInfoRun
    /\ NoReadRun

\* goto_profile(&duckypad, profile) on an open device
GotoProfile ==
    /\ pc = "goto"
    /\ \E dev \in {"write_err", "read_err", "data", "timeout"} :
       \E g \in {goto_profile(candidate, WriteOf(dev), ReadOf(dev))} :
         /\ pc' = IF g.res = "panic" THEN "panicked" ELSE "done"
         /\ frame' = g.frame
         /\ io' = g.res
         /\ write_ok' = g.wrote
         /\ reply' = g.reply
         /\ ops' = g.ops
    /\ UNCHANGED <<config, prev_profile, recv_counter, events, received, callback, cb_args, child,
                   window, app_name, candidate, opened, open_tried, spawned, env_vars, handles,
                   start_vars, info_vars, read_vars>>

NextGoto == GotoProfile

SpecGoto == InitGoto /\ [][NextGoto]_vars

(***************************************************************************)
(* Device information on its own: hid::info on drawn devices               *)
(***************************************************************************)
InfoStrings == {StrErr, StrNone, StrSome(sAB)}
InfoBytes == {0, 7, 10, U8_MAX}

InfoDevices ==
    {[product |-> p, serial |-> n, buffer |-> InfoBuffer(a, b, c)] :
        p \in InfoStrings, n \in InfoStrings, a \in InfoBytes, b \in InfoBytes,
        c \in InfoBytes}

InitInfo ==
    /\ pc = "info"
    /\ hid_dev \in InfoDevices
    /\ info = NoInfo
    /\ config = CfgGood
    /\ prev_profile = None
    /\ recv_counter = COUNTER_RESET
    /\ events = <<>>
    /\ received = "none"
    /\ callback = FALSE
    /\ cb_args = <<>>
    /\ child = "none"
    /\ window = NoWindow
    /\ app_name = <<>>
    /\ candidate = None
    /\ opened = TRUE
    /\ open_tried = TRUE
    /\ frame = NoFrame
    /\ io = "none"
    /\ write_ok = FALSE
    /\ reply = "none"
    /\ spawned = FALSE
    /\ ops = <<>>
    /\ env_win = NoWindow
    /\ env_dev = "notfound"
    /\ handles = 1
    /\ wait = FALSE
    /\ file = config
    /\ NoReadRun

Info ==
    /\ pc = "info"
    /\ \E dev \in {"write_err", "read_err", "data", "timeout"} :
       \E r \in {hid_info(hid_dev, WriteOf(dev), ReadOf(dev))} :
         /\ info' = r.info
         /\ frame' = r.frame
         /\ write_ok' = r.wrote
         /\ reply' = r.reply
         /\ ops' = r.ops
    /\ pc' = "done"
    /\ UNCHANGED <<config, prev_profile, recv_counter, events, received, callback, cb_args, child,
                   window, app_name, candidate, opened, open_tried, io, spawned, env_vars, handles,
                   start_vars, hid_dev, read_vars>>

NextInfo == Info

SpecInfo == InitInfo /\ [][NextInfo]_vars

(***************************************************************************)
(* The read loop on its own: hid::read, one action per iteration           *)
(***************************************************************************)
READ_CEILING == 5000
READ_SLEEP == 10
MaxJitter == 1

\* `while timer.elapsed() <= Duration::from_secs(5)`
WithinCeilingLenient(elapsed) == elapsed <= READ_CEILING + READ_SLEEP
WithinCeiling(elapsed) == elapsed <= READ_CEILING

\* what one device.read gives: the error, a report, or nothing yet
PollOutcomes == {"err", "data", "nodata"}

InitRead ==
    /\ pc = "read"
    /\ timer = 0
    /\ last_poll = NoPoll
    /\ poll_out = "none"
    /\ read_res = "polling"
    /\ config = CfgGood
    /\ prev_profile = None
    /\ recv_counter = COUNTER_RESET
    /\ events = <<>>
    /\ received = "none"
    /\ callback = FALSE
    /\ cb_args = <<>>
    /\ child = "none"
    /\ window = NoWindow
    /\ app_name = <<>>
    /\ candidate = None
    /\ opened = TRUE
    /\ open_tried = TRUE
    /\ frame = NoFrame
    /\ io = "none"
    /\ write_ok = TRUE
    /\ reply = "none"
    /\ spawned = FALSE
    /\ ops = <<>>
    /\ env_win = NoWindow
    /\ env_dev = "notfound"
    /\ handles = 0
    /\ wait = FALSE
    /\ file = config
    /\ NoInfoRun

\* the loop condition holds: device.read(&mut buf)?, return on res > 0, else
\* sleep 10 ms; the iteration takes the sleep and up to MaxJitter ms more
ReadPoll ==
    /\ pc = "read"
    /\ WithinCeiling(timer)
    /\ last_poll' = timer
    /\ \E out \in PollOutcomes :
         /\ poll_out' = out
         /\ IF out = "err" THEN read_res' = "Err" /\ pc' = "done" /\ UNCHANGED timer
            ELSE IF out = "data" THEN read_res' = "Some" /\ pc' = "done" /\ UNCHANGED timer
            ELSE /\ \E d \in 0..MaxJitter : timer' = timer + READ_SLEEP + d
                 /\ UNCHANGED <<read_res, pc>>
    /\ UNCHANGED <<config, prev_profile, recv_counter, events, received, callback, cb_args, child,
                   window, app_name, candidate, opened, open_tried, frame, io, write_ok,
                   reply, spawned, env_vars, dev_vars, start_vars, info_vars>>

\* the loop condition fails: Ok(None)
ReadTimeout ==
    /\ pc = "read"
    /\ ~WithinCeiling(timer)
    /\ read_res' = "None"
    /\ pc' = "done"
    /\ UNCHANGED <<config, prev_profile, recv_counter, events, received, callback, cb_args, child,
                   window, app_name, candidate, opened, open_tried, frame, io, write_ok,
                   reply, spawned, env_vars, dev_vars, start_vars, info_vars, timer, last_poll, poll_out>>

NextRead == ReadPoll \/ ReadTimeout

\* the loop is straight-line code on a non-blocking device: an iteration that
\* can run does run
SpecRead == InitRead /\ [][NextRead]_vars /\ WF_vars(NextRead)

(***************************************************************************)
(* Claims                                                                  *)
(***************************************************************************)
\* a step of the daemon that is one call of switch_profile
TickStep == pc = "switch" /\ pc' # "switch"

\* p occurs in s, stated without the code's scan: s = left \o p \o right
IsSubstring(p, s) ==
    \E i \in 0..Len(s) : \E j \in i..Len(s) :
        /\ j - i = Len(p)
        /\ \A k \in 1..Len(p) : s[i + k] = p[k]

\* f is a switch frame carrying profile p
FrameCarries(f, p) ==
    Len(f) = 64 /\ f[1] = 5 /\ f[2] = 0 /\ f[3] = 1 /\ f[4] = p

\* the rule is enabled and each of its three patterns is contained in the context
RuleApplies(item, win, app) ==
    /\ item["enabled"]
    /\ IsSubstring(IF Has(item, "process_name") THEN item["process_name"] ELSE <<>>,
                   win.process_name)
    /\ IsSubstring(item["title"], win.title)
    /\ IsSubstring(item["app_name"], app)

\* the target of the first rule that applies, None when none does
FirstApplicable(rules, win, app) ==
    LET hits == {i \in 1..Len(rules) : RuleApplies(rules[i], win, app)} IN
    IF hits = {} THEN None
    ELSE rules[CHOOSE i \in hits : \A j \in hits : i <= j]["switch_to"]

EnabledOnly(rules) == SelectSeq(rules, LAMBDA item : item["enabled"])

\* C1: next_profile returns the target of the first enabled rule, in list order,
\* whose three patterns are all substrings of the context, whatever later rule
\* also matches; None exactly when no enabled rule matches; the result is the
\* same with the disabled rules taken out of the list.
C1_FirstMatchWins ==
    pc = "done" =>
        /\ candidate = FirstApplicable(config["rules_list"], window, app_name)
        /\ candidate = FirstApplicable(EnabledOnly(config["rules_list"]), window, app_name)
        /\ (candidate = None) <=>
              (\A i \in 1..Len(config["rules_list"]) :
                  ~RuleApplies(config["rules_list"][i], window, app_name))

\* two enabled rules both match, a disabled one would not change it: the first wins
C1_Witness ==
    /\ pc = "done"
    /\ Len(config["rules_list"]) = 2
    /\ RuleApplies(config["rules_list"][1], window, app_name)
    /\ RuleApplies(config["rules_list"][2], window, app_name)
    /\ config["rules_list"][1]["title"] = <<>>
    /\ config["rules_list"][2]["title"] = sAB
    /\ config["rules_list"][1]["switch_to"] = 2
    /\ config["rules_list"][2]["switch_to"] = 1
    /\ candidate = 2

\* C2: a tick whose candidate equals last_applied_profile opens no device, writes
\* nothing, spawns nothing and returns the state unchanged; so a tick that
\* follows a successful switch to the same candidate adds no write to that one.
C2_Debounce ==
    [][TickStep =>
        /\ (candidate' \notin {None, Panic} /\ candidate' = prev_profile) =>
              /\ prev_profile' = prev_profile
              /\ ~open_tried' /\ ~opened'
              /\ frame' = NoFrame /\ ~write_ok' /\ reply' = "none"
              /\ ~spawned'
        /\ (candidate \notin {None, Panic} /\ frame # NoFrame /\ io = "ok"
              /\ candidate' = candidate) =>
              (frame' = NoFrame /\ ~open_tried')
    ]_vars

\* a tick that re-matched the applied profile and left the device alone
C2_Witness ==
    /\ pc = "recv"
    /\ window.ok
    /\ candidate = 1
    /\ prev_profile = 1
    /\ ~open_tried
    /\ frame = NoFrame

\* C3: a tick whose switch attempt fails (no device, open error, write or read
\* error) leaves last_applied_profile as it was, and every tick whose candidate
\* differs from last_applied_profile calls hid::init again and, once the device
\* is open and the candidate in range, hands the frame to the device again.
C3_FailureRetries ==
    [][TickStep =>
        /\ (io' # "ok") => prev_profile' = prev_profile
        /\ (candidate' \notin {None, Panic} /\ candidate' # prev_profile) =>
              /\ open_tried'
              /\ (opened' /\ pc' # "panicked") => FrameCarries(frame', candidate')
    ]_vars

\* a failed attempt at profile 2 while profile 1 stays the applied one
C3_Witness ==
    /\ pc = "recv"
    /\ prev_profile = 1
    /\ candidate = 2
    /\ open_tried
    /\ io = "err"
    /\ frame # NoFrame

\* C4 as claimed: no reply within the ceiling makes goto_profile fail and the tick
\* keep last_applied_profile.
C4_TimeoutFails ==
    (pc = "recv" /\ reply = "timeout") => (io = "err" /\ prev_profile # candidate)

\* C4 amended: no reply within the ceiling (hid::write returns Ok(None)) is not a
\* failure: goto_profile returns Ok(()) and the tick advances
\* last_applied_profile to the candidate; only a HidError makes it fail.
C4_TimeoutSucceeds ==
    /\ (pc = "recv" /\ reply = "timeout") =>
          (io = "ok" /\ write_ok /\ prev_profile = candidate)
    /\ (pc = "recv" /\ io = "err") => (~write_ok \/ reply = "err")

C4_Witness ==
    /\ pc = "recv"
    /\ reply = "timeout"
    /\ candidate = 2
    /\ prev_profile = 2

\* C5: a tick in which next_profile returns None returns the state unchanged and
\* does not touch the device: no hid::init, no write, no read, no callback.
C5_NoCandidateNoDevice ==
    [][(TickStep /\ window'.ok /\ candidate' = None) =>
        /\ pc' = "recv"
        /\ prev_profile' = prev_profile
        /\ ~open_tried' /\ ~opened'
        /\ frame' = NoFrame /\ ~write_ok'
        /\ reply' = "none" /\ io' = "none"
        /\ ~spawned'
    ]_vars

\* a window no rule matches, while a profile is applied
C5_Witness ==
    /\ pc = "recv"
    /\ window.ok
    /\ candidate = None
    /\ prev_profile = 1
    /\ callback

\* C6: last_applied_profile changes only in a tick that handed the frame of that
\* tick's candidate to the device and whose device.write returned Ok without a
\* later I/O error; it then equals that candidate. Reload, watcher events and
\* failed or debounced ticks leave it alone.
C6_OnlyAfterWrite ==
    [][prev_profile' # prev_profile =>
        /\ TickStep
        /\ candidate' \in MIN_PROFILE..MAX_PROFILE
        /\ FrameCarries(frame', candidate')
        /\ opened'
        /\ write_ok'
        /\ reply' \in {"data", "timeout"}
        /\ prev_profile' = candidate'
    ]_vars

\* profile 2 applied after the device took the frame and answered
C6_Witness ==
    /\ pc = "recv"
    /\ prev_profile = 2
    /\ candidate = 2
    /\ write_ok
    /\ reply = "data"
    /\ FrameCarries(frame, 2)

\* C7: goto_profile with a profile outside 1..31 panics on its assertion before
\* a frame is built: nothing is handed to device.write and nothing is read.
C7_RejectBeforeTransport ==
    (pc # "goto" /\ (candidate < MIN_PROFILE \/ candidate > MAX_PROFILE)) =>
        /\ pc = "panicked"
        /\ io = "panic"
        /\ frame = NoFrame
        /\ ~write_ok
        /\ reply = "none"

C7_Witness ==
    /\ pc = "panicked"
    /\ candidate = MAX_PROFILE + 1
    /\ frame = NoFrame

\* C8 as claimed: a tick never completes with an out-of-range target as its
\* candidate; the target is rejected whether or not the device is there.
C8_OutOfRangeRejected ==
    (pc = "recv" /\ candidate # None) =>
        (candidate >= MIN_PROFILE /\ candidate <= MAX_PROFILE)

\* C9: for p in 1..31 the frame handed to the device has 64 bytes: 0x05, 0x00,
\* 0x01, p, then zeros.
C9_FrameEncoding ==
    pc = "done" =>
        /\ candidate \in MIN_PROFILE..MAX_PROFILE
        /\ Len(frame) = 64
        /\ frame[1] = 5
        /\ frame[2] = 0
        /\ frame[3] = 1
        /\ frame[4] = candidate
        /\ \A i \in 5..64 : frame[i] = 0

C9_Witness ==
    /\ pc = "done"
    /\ candidate = 5
    /\ SubSeq(frame, 1, 6) = <<5, 0, 1, 5, 0, 0>>
    /\ write_ok

\* C10: an enabled rule whose patterns are all empty (process_name empty or
\* absent) matches every context, the all-empty one included: when no enabled
\* rule before it matches, it is the one returned.
CatchAll(item) ==
    /\ item["enabled"]
    /\ (~Has(item, "process_name") \/ item["process_name"] = <<>>)
    /\ item["title"] = <<>>
    /\ item["app_name"] = <<>>

C10_EmptyIsWildcard ==
    pc = "done" =>
        \A i \in 1..Len(config["rules_list"]) :
            (/\ CatchAll(config["rules_list"][i])
             /\ \A j \in 1..(i - 1) :
                   \/ ~config["rules_list"][j]["enabled"]
                   \/ \E f \in {"process_name", "title", "app_name"} :
                        /\ Has(config["rules_list"][j], f)
                        /\ config["rules_list"][j][f] # <<>>
                        /\ ~IsSubstring(config["rules_list"][j][f],
                                        IF f = "process_name" THEN window.process_name
                                        ELSE IF f = "title" THEN window.title
                                        ELSE app_name))
            => candidate = config["rules_list"][i]["switch_to"]

\* the catch-all is last, the rule before it is enabled and does not match, and
\* every field of the context is empty
C10_Witness ==
    /\ pc = "done"
    /\ Len(config["rules_list"]) = 2
    /\ CatchAll(config["rules_list"][2])
    /\ ~Has(config["rules_list"][2], "process_name")
    /\ config["rules_list"][1]["enabled"]
    /\ config["rules_list"][1]["title"] = sAB
    /\ window.title = <<>> /\ window.process_name = <<>> /\ app_name = <<>>
    /\ config["rules_list"][1]["switch_to"] = 1
    /\ candidate = 2

\* the loaded config has autoswitch_enabled == false
AutoswitchOff(cfg) ==
    /\ cfg["kind"] = "object"
    /\ Has(cfg, "autoswitch_enabled")
    /\ ~cfg["autoswitch_enabled"]

\* C11 as claimed: with autoswitch_enabled == false in the loaded config a tick
\* evaluates no rule, opens and writes nothing and keeps last_applied_profile.
C11_DisabledSkipsRules ==
    [][(TickStep /\ AutoswitchOff(config)) =>
          /\ pc' = "recv"
          /\ candidate' = None
          /\ prev_profile' = prev_profile
          /\ ~open_tried' /\ ~opened'
          /\ frame' = NoFrame /\ ~write_ok']_vars

\* C12 as claimed: no failed open, at startup or in a tick, ends the daemon.
C12_NeverFatal ==
    [][(pc \in {"connect", "switch"} /\ open_tried' /\ ~opened') => pc' # "panicked"]_vars

\* C12, amended: a failed open in a tick is not fatal, the tick returns with
\* last_applied_profile unchanged and the next tick with the same candidate
\* opens again; a failed open at startup is retried when --wait was given and
\* ends the daemon when it was not.
C12_OpenFailure ==
    [][/\ (TickStep /\ open_tried' /\ ~opened') =>
            (pc' = "recv" /\ prev_profile' = prev_profile)
       /\ (TickStep /\ open_tried /\ ~opened /\ candidate \notin {None, Panic}
             /\ candidate' = candidate) => open_tried'
       /\ (pc = "connect" /\ open_tried' /\ ~opened') =>
            pc' = (IF wait THEN "connect" ELSE "panicked")
      ]_vars

\* with --wait, the startup found no device and is still there to try again
C12_Witness ==
    /\ wait
    /\ pc = "connect"
    /\ open_tried /\ ~opened
    /\ config = CfgGood

\* C13 as claimed: a config that is not an object with a rules_list is rejected
\* when it is loaded, so the daemon never gets past loading with one and
\* next_profile never panics inside a tick.
C13_NoPanicInTick ==
    /\ candidate # Panic
    /\ (pc \in {"connect", "switch", "recv"}) =>
          (config["kind"] = "object" /\ Has(config, "rules_list"))

\* the argument list the documentation of run_callback gives for one invocation:
\* -p <PROFILE> [-a <APP_NAME>] [-t <WINDOW_TITLE>] [-n <PROCESS_NAME>]
ExpectedArgv(profile, win, app) ==
    <<FlagP, to_string(profile)>>
    \o (IF Len(app) > 0 THEN <<FlagA, app>> ELSE <<>>)
    \o (IF Len(win.title) > 0 THEN <<FlagT, win.title>> ELSE <<>>)
    \o (IF Len(win.process_name) > 0 THEN <<FlagN, win.process_name>> ELSE <<>>)

\* C14 as claimed: whenever a tick has invoked the callback, the argument list
\* the spawned process gets is exactly -p with the profile just applied plus
\* -a/-t/-n for the non-empty fields of this tick's context, with nothing left
\* over from earlier invocations.
C14_ExactArgs ==
    (pc = "recv" /\ spawned) => cb_args = ExpectedArgv(candidate, window, app_name)

\* C15: a tick that invokes the callback returns to the loop with
\* last_applied_profile = the candidate, whether the spawn failed or started a
\* child, and whether or not a child of an earlier tick is still running; the
\* daemon never sits waiting for a child.
C15_FireAndForget ==
    [][(TickStep /\ spawned') =>
          /\ pc' = "recv"
          /\ io' = "ok"
          /\ prev_profile' = candidate']_vars

\* a tick switched and invoked the callback again while the child of an earlier
\* invocation had not exited
C15_Witness ==
    /\ pc = "recv"
    /\ spawned
    /\ Spawns(cb_args) = 2
    /\ child = "running"
    /\ prev_profile = candidate

\* C20: a tick invokes the callback exactly when a callback is configured and
\* its switch succeeded (so never without candidate, when debounced, or when the
\* open or the switch failed); it invokes it once, after the frame was written
\* and the reply awaited, adding the arguments of this tick's candidate and
\* context.
C20_CallbackOnSuccess ==
    [][TickStep =>
          /\ spawned' <=> (callback /\ io' = "ok")
          /\ spawned' =>
                /\ write_ok' /\ reply' \in {"data", "timeout"}
                /\ FrameCarries(frame', candidate')
                /\ cb_args' = cb_args \o ExpectedArgv(candidate', window', app_name')
          /\ ~spawned' => cb_args' = cb_args]_vars

\* a second successful switch invoked the callback a second time
C20_Witness ==
    /\ pc = "recv"
    /\ callback
    /\ spawned
    /\ io = "ok"
    /\ Spawns(cb_args) = 2
    /\ candidate = 1

\* the value of a string of decimal digits
DigitValue(ch) ==
    CASE ch = "0" -> 0 [] ch = "1" -> 1 [] ch = "2" -> 2 [] ch = "3" -> 3 [] ch = "4" -> 4
      [] ch = "5" -> 5 [] ch = "6" -> 6 [] ch = "7" -> 7 [] ch = "8" -> 8 [] ch = "9" -> 9
RECURSIVE DecimalValue(_)
DecimalValue(str) ==
    IF Len(str) = 0 THEN 0
    ELSE 10 * DecimalValue(SubSeq(str, 1, Len(str) - 1)) + DigitValue(str[Len(str)])

\* str is the plain decimal numeral of n: digits only, no leading zero
IsDecimalOf(str, n) ==
    /\ Len(str) >= 1
    /\ \A i \in 1..Len(str) : str[i] \in {"0", "1", "2", "3", "4", "5", "6", "7", "8", "9"}
    /\ Len(str) > 1 => str[1] # "0"
    /\ DecimalValue(str) = n

\* str is "a.b.c" for the numbers a, b, c
IsVersionOf(str, a, b, c) ==
    \E i \in 2..Len(str) : \E j \in (i + 2)..Len(str) :
        /\ str[i] = "." /\ str[j] = "."
        /\ IsDecimalOf(SubSeq(str, 1, i - 1), a)
        /\ IsDecimalOf(SubSeq(str, i + 1, j - 1), b)
        /\ IsDecimalOf(SubSeq(str, j + 1, Len(str)), c)

\* C19: hid::info always returns a DuckyPadInfo. It hands the device a frame
\* with byte 0 = 0x05 and 63 zero bytes; firmware is "a.b.c" for the reply's
\* bytes 3, 4, 5 when a reply arrived and "unknown" when the request timed out
\* or failed; model and serial are the device's strings, each on its own
\* replaced by "unknown" when it is unavailable.
C19_InfoNeverFails ==
    pc = "done" =>
        /\ DOMAIN info = {"model", "serial", "firmware"}
        /\ Len(frame) = 64 /\ frame[1] = 5 /\ \A i \in 2..64 : frame[i] = 0
        /\ reply = "data" =>
              IsVersionOf(info.firmware, hid_dev.buffer[4], hid_dev.buffer[5],
                          hid_dev.buffer[6])
        /\ reply # "data" => info.firmware = <<"u", "n", "k", "n", "o", "w", "n">>
        /\ info.model = IF hid_dev.product.kind = "Some" THEN hid_dev.product.s
                        ELSE <<"u", "n", "k", "n", "o", "w", "n">>
        /\ info.serial = IF hid_dev.serial.kind = "Some" THEN hid_dev.serial.s
                         ELSE <<"u", "n", "k", "n", "o", "w", "n">>

\* a reply with firmware 10.0.255 from a device that has a serial number but
\* no product string
C19_Witness ==
    /\ pc = "done"
    /\ reply = "data"
    /\ hid_dev.buffer[4] = 10 /\ hid_dev.buffer[5] = 0 /\ hid_dev.buffer[6] = 255
    /\ info.firmware = <<"1", "0", ".", "0", ".", "2", "5", "5">>
    /\ hid_dev.product.kind = "None" /\ info.model = Unknown
    /\ hid_dev.serial.kind = "Some" /\ info.serial = sAB

\* C18: hid::read ends, and how: Ok(Some) exactly at the first device.read that
\* delivers data, the error exactly at the first device.read that fails,
\* Ok(None) only once more than the ceiling has elapsed with every poll empty;
\* no device.read happens after the ceiling.
C18_ReadTerminates ==
    /\ <>(read_res \in {"Some", "None", "Err"})
    /\ [](/\ poll_out = "data" <=> read_res = "Some"
          /\ poll_out = "err" <=> read_res = "Err"
          /\ read_res = "None" => (poll_out = "nodata" /\ timer > 5000)
          /\ last_poll <= 5000
          /\ (read_res = "polling" /\ poll_out = "nodata") => timer >= last_poll + 10)

\* the last poll happened exactly at the ceiling, found nothing, and the read
\* then timed out
C18_Witness ==
    /\ pc = "done"
    /\ read_res = "None"
    /\ last_poll = 5000
    /\ poll_out = "nodata"

\* C16: the in-memory config changes only in the step of the loop that pops a
\* Write event, between two ticks, and is then the whole content of the file,
\* nothing of the old value kept; so every tick evaluates a config that is
\* entirely the content of one load.
C16_ReloadReplaces ==
    [][/\ config' # config =>
            /\ pc = "recv" /\ pc' = "switch"
            /\ events # <<>> /\ Head(events) = "Write"
            /\ config' = file /\ file' = file
       /\ TickStep => (config' = config /\ config \in {CfgGood, CfgAlt})
      ]_vars

\* after a reload a tick found the profile only the new rule list gives
C16_Witness ==
    /\ pc = "recv"
    /\ config = CfgAlt
    /\ window.title = sAB
    /\ candidate = 2
    /\ prev_profile = 2

\* an event leaves the channel
PopStep == events # <<>> /\ events' = Tail(events)

CallsOf(op) == {i \in 1..Len(ops) : ops[i] = op}

\* C21: in every session (the startup's info request, a tick's switch request)
\* a read happens only directly after the one write of that session, on the
\* handle opened for it, and the frame written has 64 bytes; when the write
\* fails there is no read and a switch request returns the error.
C21_RequestReply ==
    /\ \A i \in CallsOf("read") : i > 1 /\ ops[i - 1] = "write"
    /\ Cardinality(CallsOf("write")) <= 1
    /\ \A i \in CallsOf("write") \cup CallsOf("read") :
          /\ \E j \in CallsOf("open") : j < i
          /\ \E j \in CallsOf("close") : j > i
    /\ CallsOf("write") # {} => Len(frame) = 64
    /\ (CallsOf("read") # {}) <=> (reply # "none")
    /\ (CallsOf("write") # {} /\ ~write_ok) =>
          /\ CallsOf("read") = {}
          /\ reply = "none"
          /\ frame[3] = 1 => io = "err"

\* a tick whose device.write failed: the handle was closed without a read
C21_Witness ==
    /\ pc = "recv"
    /\ ops = <<"open", "write", "close">>
    /\ ~write_ok
    /\ io = "err"
    /\ prev_profile = None

\* C22: between the steps of the daemon no device handle is alive; a session
\* (startup or switch attempt) that got a device opened exactly one and closed
\* it as its last call, so at most one handle is ever open and every attempt
\* starts with its own open; an attempt that got none made no other call.
C22_OneHandle ==
    /\ handles = 0
    /\ opened =>
          /\ Cardinality(CallsOf("open")) = 1 /\ ops[1] = "open"
          /\ Cardinality(CallsOf("close")) = 1 /\ ops[Len(ops)] = "close"
    /\ (open_tried /\ ~opened) => ops = <<"open_failed">>
    /\ ~open_tried => ops = <<>>

\* after the startup's info session a tick ran a whole switch session of its own
C22_Witness ==
    /\ pc = "recv"
    /\ info # NoInfo
    /\ opened
    /\ ops = <<"open", "write", "read", "close">>
    /\ prev_profile = 1
    /\ handles = 0

\* C23: if from some point on the active window stays one that the rules send
\* to profile p and the device stays present and answers, then from some point
\* on last_applied_profile = p, whatever failed before; and a tick whose
\* candidate is the applied profile makes no device call and leaves it applied.
C23_Converges ==
    /\ <>[](env_win = Window(sAB, sB) /\ env_dev = "data") => <>[](prev_profile = 1)
    /\ <>[](env_win = Window(sA, sB) /\ env_dev = "data") => <>[](prev_profile = 2)
    /\ [][(TickStep /\ candidate' \notin {None, Panic} /\ candidate' = prev_profile) =>
              (ops' = <<>> /\ frame' = NoFrame /\ prev_profile' = prev_profile)]_vars

\* the device is back and answers, profile 2 is applied although the latest
\* attempt before had failed, and the tick that found profile 2 again left the
\* device alone
C23_Witness ==
    /\ pc = "recv"
    /\ env_win = Window(sA, sB)
    /\ env_dev = "data"
    /\ candidate = 2
    /\ prev_profile = 2
    /\ ~open_tried

\* C24: a tick whose window query gives Err(()) returns to the loop with
\* prev_profile as it was, without evaluating the rules (no app name looked up,
\* no candidate), without opening or writing to the device and without adding
\* to or spawning the callback.
C24_NoWindowNoAction ==
    [][(TickStep /\ window' = NoWindow) =>
          /\ pc' = "recv"
          /\ prev_profile' = prev_profile
          /\ app_name' = <<>>
          /\ candidate' = None
          /\ ~open_tried'
          /\ ops' = <<>>
          /\ handles' = handles
          /\ frame' = NoFrame
          /\ ~spawned'
          /\ cb_args' = cb_args
          /\ child' = child]_vars

\* the script could not be run in a daemon that has a callback and had applied
\* profile 1 and called the callback for it: the tick left all of it alone
C24_Witness ==
    /\ pc = "recv"
    /\ window = NoWindow
    /\ callback
    /\ config = CfgCatchAll
    /\ prev_profile = 1
    /\ Spawns(cb_args) = 1
    /\ candidate = None
    /\ ops = <<>>
    /\ ~spawned

====
